---------------------------- MODULE Spec2Model ----------------------------
(***************************************************************************)
(* A state-machine model of the course marketplace: the request handlers   *)
(* of routes.py acting on the tables of models.py.  Every handler is one   *)
(* atomic action (one request-scoped database transaction).  The           *)
(* specifications share the variables:                                     *)
(*   Spec          courses, enrollment and payment handlers;               *)
(*   SpecRenew     the Enrollment methods of models.py on one enrollment;  *)
(*   SpecEnroll    enroll_course on an enrollment that may expire;         *)
(*   SpecQuizEdit  the quiz editing handlers;                              *)
(*   SpecQuiz      take_quiz on a quiz that has been built;                *)
(*   SpecAuth      handlers that turn users away: edit_course, the         *)
(*                 comment handlers and an admin page;                     *)
(*   SpecOwner     the course editing handlers on another instructor's     *)
(*                 course.                                                 *)
(***************************************************************************)
EXTENDS Integers, Sequences, FiniteSets, TLC

VARIABLES
    now,            \* the value datetime.utcnow() returns, in ticks
    courses,        \* Course table: sequence indexed by id
    enrollments,    \* Enrollment table: sequence indexed by id
    payments,       \* Payment table: sequence indexed by id
    notifications,  \* Notification table: sequence indexed by id
    quizzes,        \* Quiz table: sequence indexed by id
    questions,      \* Question table: function id -> row
    answers,        \* Answer table: function id -> row
    attempts,       \* QuizAttempt table: sequence indexed by id
    comments,       \* Comment table: function id -> row
    contents,       \* Content table: function id -> row
    last            \* the last request served and its response

vars == <<now, courses, enrollments, payments, notifications,
          quizzes, questions, answers, attempts, comments, contents,
          last>>

\* the tables of the quiz component
quizTables == <<quizzes, questions, answers, attempts>>

---------------------------------------------------------------------------
(* Bounds of the model. *)

\* ticks of the clock per day (timedelta(days=1))
TicksPerDay == 2
\* the clock stops advancing here
MaxNow == 3
\* rows the Payment table may hold
MaxPayments == 2
\* rows the Enrollment table may hold
MaxEnrollments == 2
\* the price entered for a paid course
PaidPrice == 5
\* the ids a Course row may take
CourseIds == {1}
\* the largest id of a Question row
MaxQuestions == 2
\* the largest id of an Answer row
MaxAnswers == 3
\* rows the QuizAttempt table may hold
MaxAttempts == 2
\* the largest id of a Comment row
MaxComments == 3
\* the largest id of a Content row
MaxContents == 2
\* rows the Quiz table may hold
MaxQuizzes == 2

(* Program constants. *)

\* Course.duration_days default
DefaultDurationDays == 365
\* Course.max_enrollments default
DefaultMaxEnrollments == 100
\* renew_subscription's default duration_days
DefaultRenewDays == 30

---------------------------------------------------------------------------
(* Values. *)

\* a nullable column: None is <<>>, a value x is <<x>>
None == <<>>
Some(x) == <<x>>

\* the accounts, all logged in; User.role
Users == {1, 2, 3, 4}
Role == (1 :> "student") @@ (2 :> "student") @@ (3 :> "instructor")
        @@ (4 :> "admin")

\* the accounts that send enrollment, payment and quiz requests
Students == {u \in Users : Role[u] = "student"}

\* User.is_admin
is_admin(u) == Role[u] = "admin"

\* User.is_instructor
is_instructor(u) == Role[u] = "instructor" \/ Role[u] = "admin"

\* timedelta(days=d), in ticks
timedelta(d) == d * TicksPerDay

Min(S) == CHOOSE x \in S : \A y \in S : x <= y

\* Query.first() on the ids of the matching rows: the least id, or 0
First(hits) == IF hits = {} THEN 0 ELSE Min(hits)

---------------------------------------------------------------------------
(* models.py: Course and Enrollment methods. *)

\* Course.calculate_expiry_date with a slip: the default duration is used
calculate_expiry_date_default(course, enrollment_date) ==
    enrollment_date + timedelta(DefaultDurationDays)

\* Course.calculate_expiry_date
calculate_expiry_date(course, enrollment_date) ==
    enrollment_date + timedelta(course.duration_days)

\* Enrollment.is_expired with a slip: expired from the instant of expiry on
is_expired_at_expiry(e, t) ==
    IF e.expires_at = None THEN FALSE ELSE t >= e.expires_at[1]

\* Enrollment.is_expired, evaluated when utcnow() returns t
is_expired(e, t) ==
    IF e.expires_at = None THEN FALSE ELSE t > e.expires_at[1]

\* Enrollment.has_access
has_access(e, t) == e.is_active /\ ~is_expired(e, t)

\* Enrollment.days_until_expiry, evaluated when utcnow() returns t; the days
\* of a timedelta are its whole days, rounded down
days_until_expiry(e, t) ==
    IF e.expires_at = None THEN None
    ELSE LET days == (e.expires_at[1] - t) \div TicksPerDay
         IN  Some(IF days > 0 THEN days ELSE 0)

\* Enrollment.renew_subscription with a slip: always counted from now
renew_subscription_from_now(e, duration_days, t1, t2, t3) ==
    [e EXCEPT !.expires_at = Some(t2 + timedelta(duration_days)),
              !.subscription_renewed = Some(t3),
              !.is_active = TRUE]

\* Enrollment.renew_subscription; utcnow() is read up to three times and
\* returns t1 in the condition, t2 in the else branch, t3 afterwards
renew_subscription(e, duration_days, t1, t2, t3) ==
    [e EXCEPT !.expires_at =
                 IF e.expires_at # None /\ t1 < e.expires_at[1]
                 THEN Some(e.expires_at[1] + timedelta(duration_days))
                 ELSE Some(t2 + timedelta(duration_days)),
              !.subscription_renewed = Some(t3),
              !.is_active = TRUE]

\* Enrollment.set_expiry_date; course is the row self.course
set_expiry_date(e, course) ==
    [e EXCEPT !.expires_at = Some(calculate_expiry_date(course, e.enrolled_at))]

\* a new Enrollment row with the column defaults of models.py
NewEnrollment(u, c, t) ==
    [student_id |-> u, course_id |-> c, enrolled_at |-> t,
     expires_at |-> None, subscription_type |-> "unlimited",
     is_active |-> TRUE, subscription_renewed |-> None]

\* Enrollment.query.filter_by(student_id, course_id).first()
FindEnrollment(u, c) ==
    First({i \in DOMAIN enrollments :
              /\ enrollments[i].student_id = u
              /\ enrollments[i].course_id = c})

\* Payment.query.filter_by(user_id, course_id, status='pending').first()
FindPending(u, c) ==
    First({i \in DOMAIN payments :
              /\ payments[i].user_id = u
              /\ payments[i].course_id = c
              /\ payments[i].status = "pending"})

---------------------------------------------------------------------------
(* routes.py: the handlers, each as the tables it leaves behind. *)

\* the outcome of a handler that changes nothing
Same(resp) ==
    [courses |-> courses, enrollments |-> enrollments, payments |-> payments,
     notifications |-> notifications, resp |-> resp]

\* create_course: instructor_required, then the Course row
create_course(u, price) ==
    IF ~is_instructor(u) THEN Same("redirect_login")
    ELSE [Same("created") EXCEPT !.courses =
            Append(courses, [instructor_id |-> u,
                             price |-> IF price < 0 THEN 0 ELSE price,
                             duration_days |-> DefaultDurationDays,
                             max_enrollments |-> DefaultMaxEnrollments])]

\* edit_course with a slip: the owner test is left out
edit_course_without_owner_test(u, c, price) ==
    IF ~is_instructor(u) THEN Same("redirect_login")
    ELSE IF c \notin DOMAIN courses THEN Same("404")
    ELSE [Same("updated") EXCEPT !.courses =
            [courses EXCEPT ![c].price = IF price < 0 THEN 0 ELSE price]]

\* edit_course: only the course's own instructor; sets the price
edit_course(u, c, price) ==
    IF ~is_instructor(u) THEN Same("redirect_login")
    ELSE IF c \notin DOMAIN courses THEN Same("404")
    ELSE IF courses[c].instructor_id # u THEN Same("403")
    ELSE [Same("updated") EXCEPT !.courses =
            [courses EXCEPT ![c].price = IF price < 0 THEN 0 ELSE price]]

\* enroll_course with a slip: a free enrollment also records a Payment
enroll_course_recording_payment(u, c, t1, t2) ==
    IF c \notin DOMAIN courses THEN Same("404")
    ELSE LET e == FindEnrollment(u, c) IN
         IF e # 0 /\ is_expired(enrollments[e], t1) THEN Same("expired")
         ELSE IF e # 0 /\ ~is_expired(enrollments[e], t2)
         THEN Same("already_enrolled")
         ELSE IF courses[c].price = 0
         THEN [Same("enrolled") EXCEPT
                 !.enrollments = Append(enrollments, NewEnrollment(u, c, t2)),
                 !.payments = Append(payments, [user_id |-> u, course_id |-> c,
                                                amount |-> 0,
                                                status |-> "completed"]),
                 !.notifications = notifications \o
                     << [user_id |-> u, related_id |-> c],
                        [user_id |-> courses[c].instructor_id,
                         related_id |-> c] >>]
         ELSE Same("checkout")

\* enroll_course with a slip: the price is not looked at
enroll_course_ignoring_price(u, c, t1, t2) ==
    IF c \notin DOMAIN courses THEN Same("404")
    ELSE LET e == FindEnrollment(u, c) IN
         IF e # 0 /\ is_expired(enrollments[e], t1) THEN Same("expired")
         ELSE IF e # 0 /\ ~is_expired(enrollments[e], t2)
         THEN Same("already_enrolled")
         ELSE [Same("enrolled") EXCEPT
                 !.enrollments = Append(enrollments, NewEnrollment(u, c, t2)),
                 !.notifications = notifications \o
                     << [user_id |-> u, related_id |-> c],
                        [user_id |-> courses[c].instructor_id,
                         related_id |-> c] >>]

\* enroll_course with a slip: the free enrollment is time-boxed
enroll_course_time_boxed(u, c, t1, t2) ==
    IF c \notin DOMAIN courses THEN Same("404")
    ELSE LET e == FindEnrollment(u, c) IN
         IF e # 0 /\ is_expired(enrollments[e], t1) THEN Same("expired")
         ELSE IF e # 0 /\ ~is_expired(enrollments[e], t2)
         THEN Same("already_enrolled")
         ELSE IF courses[c].price = 0
         THEN [Same("enrolled") EXCEPT
                 !.enrollments = Append(enrollments,
                     [NewEnrollment(u, c, t2) EXCEPT !.expires_at =
                         Some(calculate_expiry_date(courses[c], t2))]),
                 !.notifications = notifications \o
                     << [user_id |-> u, related_id |-> c],
                        [user_id |-> courses[c].instructor_id,
                         related_id |-> c] >>]
         ELSE Same("checkout")

\* enroll_course; each of its two calls of is_expired reads utcnow(): t1 is
\* the first reading, t2 the second, which is also when the row is made
enroll_course(u, c, t1, t2) ==
    IF c \notin DOMAIN courses THEN Same("404")
    ELSE LET e == FindEnrollment(u, c) IN
         IF e # 0 /\ is_expired(enrollments[e], t1) THEN Same("expired")
         ELSE IF e # 0 /\ ~is_expired(enrollments[e], t2)
         THEN Same("already_enrolled")
         ELSE IF courses[c].price = 0
         THEN [Same("enrolled") EXCEPT
                 !.enrollments = Append(enrollments, NewEnrollment(u, c, t2)),
                 !.notifications = notifications \o
                     << [user_id |-> u, related_id |-> c],
                        [user_id |-> courses[c].instructor_id,
                         related_id |-> c] >>]
         ELSE Same("checkout")

\* create_checkout_session with a slip: the pending Payment is recorded
\* before the provider is called, and stays when the call raises
create_checkout_session_recording_first(u, c, session_ok) ==
    IF c \notin DOMAIN courses THEN Same("404")
    ELSE [Same(IF session_ok THEN "session" ELSE "error") EXCEPT
            !.payments =
                Append(payments, [user_id |-> u, course_id |-> c,
                                  amount |-> courses[c].price,
                                  status |-> "pending"])]

\* create_checkout_session; session_ok says whether the provider call
\* returned a session (it raised otherwise, and the except branch ran)
create_checkout_session(u, c, session_ok) ==
    IF c \notin DOMAIN courses THEN Same("404")
    ELSE IF session_ok
    THEN [Same("session") EXCEPT !.payments =
            Append(payments, [user_id |-> u, course_id |-> c,
                              amount |-> courses[c].price,
                              status |-> "pending"])]
    ELSE Same("error")

\* payment_success with a slip: every pending Payment of the pair is
\* completed
payment_success_completing_all(u, c, t) ==
    IF c \notin DOMAIN courses THEN Same("404")
    ELSE LET p == FindPending(u, c) IN
         IF p # 0
         THEN [Same("paid") EXCEPT
                 !.payments =
                    [i \in DOMAIN payments |->
                        IF /\ payments[i].user_id = u
                           /\ payments[i].course_id = c
                           /\ payments[i].status = "pending"
                        THEN [payments[i] EXCEPT !.status = "completed"]
                        ELSE payments[i]],
                 !.enrollments = Append(enrollments, NewEnrollment(u, c, t))]
         ELSE Same("processed")

\* payment_success, served when utcnow() returns t
payment_success(u, c, t) ==
    IF c \notin DOMAIN courses THEN Same("404")
    ELSE LET p == FindPending(u, c) IN
         IF p # 0
         THEN [Same("paid") EXCEPT
                 !.payments = [payments EXCEPT ![p].status = "completed"],
                 !.enrollments = Append(enrollments, NewEnrollment(u, c, t))]
         ELSE Same("processed")

\* payment_cancel with a slip: the query does not filter on the status
payment_cancel_any_status(u, c) ==
    IF c \notin DOMAIN courses THEN Same("404")
    ELSE LET p == First({i \in DOMAIN payments :
                          /\ payments[i].user_id = u
                          /\ payments[i].course_id = c})
         IN  IF p # 0
             THEN [Same("cancelled") EXCEPT
                     !.payments = [payments EXCEPT ![p].status = "failed"]]
             ELSE Same("nothing_pending")

\* payment_cancel
payment_cancel(u, c) ==
    IF c \notin DOMAIN courses THEN Same("404")
    ELSE LET p == FindPending(u, c) IN
         IF p # 0
         THEN [Same("cancelled") EXCEPT
                 !.payments = [payments EXCEPT ![p].status = "failed"]]
         ELSE Same("nothing_pending")

---------------------------------------------------------------------------
(* The actions of Spec. *)

\* the tables a handler left behind become the state
Commit(r, op, u, id) ==
    /\ courses' = r.courses
    /\ enrollments' = r.enrollments
    /\ payments' = r.payments
    /\ notifications' = r.notifications
    /\ last' = [op |-> op, user |-> u, id |-> id, resp |-> r.resp]
    /\ UNCHANGED <<now, quizTables, comments, contents>>

CreateCourse ==
    \E u \in Users, price \in {0, PaidPrice} :
        /\ Len(courses) < Cardinality(CourseIds)
        /\ Commit(create_course(u, price), "create_course", u, Len(courses) + 1)

EditCourse ==
    \E u \in Users, c \in CourseIds, price \in {0, PaidPrice} :
        Commit(edit_course(u, c, price), "edit_course", u, c)

EnrollCourse ==
    \E u \in Students, c \in CourseIds :
        /\ Len(enrollments) < MaxEnrollments
        /\ Commit(enroll_course(u, c, now, now), "enroll_course", u, c)

CreateCheckoutSession ==
    \E u \in Students, c \in CourseIds, session_ok \in BOOLEAN :
        /\ Len(payments) < MaxPayments
        /\ Commit(create_checkout_session(u, c, session_ok),
                  "create_checkout_session", u, c)

PaymentSuccess ==
    \E u \in Students, c \in CourseIds :
        /\ Len(enrollments) < MaxEnrollments
        /\ Commit(payment_success(u, c, now), "payment_success", u, c)

PaymentCancel ==
    \E u \in Students, c \in CourseIds :
        Commit(payment_cancel(u, c), "payment_cancel", u, c)

NoRequest == [op |-> "none", user |-> 0, id |-> 0, resp |-> "none"]

Init ==
    /\ now = 0
    /\ courses = <<>>
    /\ enrollments = <<>>
    /\ payments = <<>>
    /\ notifications = <<>>
    /\ quizzes = <<>>
    /\ questions = <<>>
    /\ answers = <<>>
    /\ attempts = <<>>
    /\ comments = <<>>
    /\ contents = <<>>
    /\ last = NoRequest

Next ==
    \/ CreateCourse
    \/ EditCourse
    \/ EnrollCourse
    \/ CreateCheckoutSession
    \/ PaymentSuccess
    \/ PaymentCancel

Spec == Init /\ [][Next]_vars

---------------------------------------------------------------------------
(* SpecRenew: the clock and the Enrollment methods, on the enrollments of *)
(* one course whose duration_days the course form set.                    *)

\* the durations a course is given (forms.py allows 1 to 3650 days)
Durations == {1, 2, DefaultDurationDays}

\* the durations renew_subscription is called with
RenewDays == {1, DefaultRenewDays}

\* the readings of utcnow() during one call that starts at t: the clock
\* advances by at most one tick while the call runs
Readings(t) ==
    {r \in (t..(t + 1)) \X (t..(t + 1)) \X (t..(t + 1)) :
        r[1] = t /\ r[1] <= r[2] /\ r[2] <= r[3] /\ r[3] <= MaxNow}

Tick ==
    /\ now < MaxNow
    /\ now' = now + 1
    /\ last' = [op |-> "tick", user |-> 0, id |-> 0, resp |-> "none"]
    /\ UNCHANGED <<courses, enrollments, payments, notifications,
                   quizTables, comments, contents>>

RenewSubscription ==
    \E i \in DOMAIN enrollments, d \in RenewDays, r \in Readings(now) :
        /\ IF enrollments[i].expires_at = None THEN TRUE
           ELSE enrollments[i].expires_at[1] <= MaxNow + TicksPerDay
        /\ enrollments' = [enrollments EXCEPT
               ![i] = renew_subscription(@, d, r[1], r[2], r[3])]
        /\ now' = r[3]
        /\ last' = [op |-> "renew_subscription", user |-> 0, id |-> i,
                    resp |-> "committed", d |-> d, read |-> r[2],
                    old |-> enrollments[i].expires_at]
        /\ UNCHANGED <<courses, payments, notifications, quizTables,
                       comments, contents>>

SetExpiryDate ==
    \E i \in DOMAIN enrollments :
        /\ enrollments' = [enrollments EXCEPT
               ![i] = set_expiry_date(@, courses[@.course_id])]
        /\ last' = [op |-> "set_expiry_date", user |-> 0, id |-> i,
                    resp |-> "committed"]
        /\ UNCHANGED <<now, courses, payments, notifications, quizTables,
                       comments, contents>>

InitRenew ==
    /\ now = 0
    /\ \E dur \in Durations :
          courses = << [instructor_id |-> 3, price |-> 0,
                        duration_days |-> dur,
                        max_enrollments |-> DefaultMaxEnrollments] >>
    /\ enrollments = << NewEnrollment(1, 1, 0) >>
    /\ payments = <<>>
    /\ notifications = << [user_id |-> 1, related_id |-> 1],
                          [user_id |-> 3, related_id |-> 1] >>
    /\ quizzes = <<>>
    /\ questions = <<>>
    /\ answers = <<>>
    /\ attempts = <<>>
    /\ comments = <<>>
    /\ contents = <<>>
    /\ last = NoRequest

NextRenew ==
    \/ Tick
    \/ RenewSubscription
    \/ SetExpiryDate

SpecRenew == InitRenew /\ [][NextRenew]_vars

---------------------------------------------------------------------------
(* SpecEnroll: enroll_course requests while the clock advances, on a free *)
(* course in which student 1 is enrolled and whose enrollment the          *)
(* Enrollment methods give an expiry.                                      *)

\* enroll_course, during which the clock advances by at most one tick
EnrollCourseTimed ==
    \E u \in Students, c \in CourseIds, t2 \in now..(now + 1) :
      \E r \in {enroll_course(u, c, now, t2)} :
        /\ t2 <= MaxNow
        /\ Len(enrollments) < MaxEnrollments
        /\ now' = t2
        /\ courses' = r.courses
        /\ enrollments' = r.enrollments
        /\ payments' = r.payments
        /\ notifications' = r.notifications
        /\ last' = [op |-> "enroll_course", user |-> u, id |-> c,
                    resp |-> r.resp]
        /\ UNCHANGED <<quizTables, comments, contents>>

InitEnroll == InitRenew

NextEnroll ==
    \/ Tick
    \/ RenewSubscription
    \/ SetExpiryDate
    \/ EnrollCourseTimed

SpecEnroll == InitEnroll /\ [][NextEnroll]_vars

---------------------------------------------------------------------------
(* routes.py: the quiz handlers. *)

\* the greatest common divisor, for quotients in lowest terms
RECURSIVE GCD(_, _)
GCD(a, b) == IF b = 0 THEN a ELSE GCD(b, a % b)

\* a Float holding the quotient num / den, kept exact and in lowest terms
Ratio(num, den) ==
    LET g == GCD(num, den) IN [num |-> num \div g, den |-> den \div g]

\* str(i) for a row id, as a form carries it
ToStr(i) == <<"1", "2", "3", "4", "5", "6", "7", "8", "9">>[i]

\* the id a new row of a table with deletions gets: the largest id plus one
NextId(table) ==
    IF DOMAIN table = {} THEN 1
    ELSE (CHOOSE x \in DOMAIN table : \A y \in DOMAIN table : y <= x) + 1

\* a table without the rows of the ids in gone
Without(table, gone) == [i \in (DOMAIN table) \ gone |-> table[i]]

\* Question.query.filter_by(quiz_id=qz).all(), as ids
QuestionsOf(qz) == {q \in DOMAIN questions : questions[q].quiz_id = qz}

\* question.answers, as ids
AnswersOf(q) == {a \in DOMAIN answers : answers[a].question_id = q}

\* Answer.query.get(s) for a submitted string s: the id of the row, or 0
AnswerGet(s) ==
    LET hits == {a \in DOMAIN answers : ToStr(a) = s}
    IN  IF hits = {} THEN 0 ELSE Min(hits)

\* next((a.text for a in question.answers if a.is_correct), None)
correct_value(q) ==
    LET right == {a \in AnswersOf(q) : answers[a].is_correct}
    IN  IF right = {} THEN None ELSE Some(answers[Min(right)].text)

\* the scoring loop with a slip: a short_answer question that got any value
\* earns its points
awarded_scoring_short_answer(q, value) ==
    IF questions[q].question_type = "multiple_choice"
    THEN IF value # None
         THEN LET a == AnswerGet(value[1]) IN
              IF a # 0 /\ answers[a].is_correct
              THEN questions[q].points ELSE 0
         ELSE 0
    ELSE IF questions[q].question_type = "true_false"
    THEN IF value = correct_value(q) THEN questions[q].points ELSE 0
    ELSE IF value # None THEN questions[q].points ELSE 0

\* the scoring loop with a slip: a multiple_choice question earns its points
\* only for a correct Answer of its own
awarded_own_answers_only(q, value) ==
    IF questions[q].question_type = "multiple_choice"
    THEN IF value # None
         THEN LET a == AnswerGet(value[1]) IN
              IF a # 0 /\ answers[a].is_correct /\ a \in AnswersOf(q)
              THEN questions[q].points ELSE 0
         ELSE 0
    ELSE IF questions[q].question_type = "true_false"
    THEN IF value = correct_value(q) THEN questions[q].points ELSE 0
    ELSE 0

\* the points the scoring loop adds for question q when the form holds
\* value (None when the form has no such field) under question_<q>
awarded(q, value) ==
    IF questions[q].question_type = "multiple_choice"
    THEN IF value # None
         THEN LET a == AnswerGet(value[1]) IN
              IF a # 0 /\ answers[a].is_correct
              THEN questions[q].points ELSE 0
         ELSE 0
    ELSE IF questions[q].question_type = "true_false"
    THEN IF value = correct_value(q) THEN questions[q].points ELSE 0
    ELSE 0

\* the scoring loop over the questions qs, starting from score
RECURSIVE score_loop(_, _, _)
score_loop(qs, form, score) ==
    IF qs = {} THEN score
    ELSE LET q == Min(qs) IN
         score_loop(qs \ {q}, form, score + awarded(q, form[q]))

\* sum(q.points for q in questions)
RECURSIVE total_points(_)
total_points(qs) ==
    IF qs = {} THEN 0
    ELSE LET q == Min(qs) IN questions[q].points + total_points(qs \ {q})

\* percentage_score with a slip: the points earned are divided by the
\* number of questions
percentage_score_per_question(qs, form) ==
    IF Cardinality(qs) > 0
    THEN Ratio(score_loop(qs, form, 0) * 100, Cardinality(qs))
    ELSE Ratio(0, 1)

\* percentage_score
percentage_score(qs, form) ==
    IF total_points(qs) > 0
    THEN Ratio(score_loop(qs, form, 0) * 100, total_points(qs))
    ELSE Ratio(0, 1)

\* QuizAttempt.query.filter_by(quiz_id, student_id, completed=False).first()
FindOpenAttempt(u, qz) ==
    First({i \in DOMAIN attempts :
              /\ attempts[i].quiz_id = qz
              /\ attempts[i].student_id = u
              /\ ~attempts[i].completed})

\* the same query with a slip: the completed flag is not filtered on
FindAnyAttempt(u, qz) ==
    First({i \in DOMAIN attempts :
              /\ attempts[i].quiz_id = qz
              /\ attempts[i].student_id = u})

\* a new QuizAttempt row with the column defaults of models.py
NewAttempt(u, qz, t) ==
    [quiz_id |-> qz, student_id |-> u, score |-> Ratio(0, 1),
     completed |-> FALSE, started_at |-> t, completed_at |-> None]

\* the outcome of a quiz handler that changes nothing
SameQuiz(resp) ==
    [questions |-> questions, answers |-> answers, attempts |-> attempts,
     resp |-> resp, attempt |-> 0]

\* the body of take_quiz once the user may take the quiz; open is the
\* attempt the query for an existing attempt returned, or 0; enrolled says
\* whether the user has an Enrollment, which calculate_progress needs
serve_quiz(u, qz, method, form, t, open, enrolled) ==
    LET started == IF open # 0 THEN attempts
                   ELSE Append(attempts, NewAttempt(u, qz, t))
        at == IF open # 0 THEN open ELSE Len(started)
    IN  IF method = "POST"
        THEN [SameQuiz(IF enrolled THEN "submitted" ELSE "submitted_500")
                EXCEPT !.attempt = at,
                       !.attempts = [started EXCEPT
                          ![at].score = percentage_score(QuestionsOf(qz), form),
                          ![at].completed = TRUE,
                          ![at].completed_at = Some(t)]]
        ELSE [SameQuiz("taking") EXCEPT !.attempt = at, !.attempts = started]

\* take_quiz with a slip: a new attempt is created on every request
take_quiz_always_new(u, qz, method, form, t) ==
    IF qz \notin DOMAIN quizzes THEN SameQuiz("404")
    ELSE LET e == FindEnrollment(u, quizzes[qz].course_id) IN
         IF e = 0 /\ ~is_instructor(u) THEN SameQuiz("not_enrolled")
         ELSE serve_quiz(u, qz, method, form, t, 0, e # 0)

\* take_quiz with a slip: the existing attempt is continued even when it
\* is completed
take_quiz_reopening(u, qz, method, form, t) ==
    IF qz \notin DOMAIN quizzes THEN SameQuiz("404")
    ELSE LET e == FindEnrollment(u, quizzes[qz].course_id) IN
         IF e = 0 /\ ~is_instructor(u) THEN SameQuiz("not_enrolled")
         ELSE serve_quiz(u, qz, method, form, t, FindAnyAttempt(u, qz), e # 0)

\* take_quiz with a slip: a submission is turned away once the user has a
\* completed attempt at the quiz and none in progress
take_quiz_blocking(u, qz, method, form, t) ==
    IF qz \notin DOMAIN quizzes THEN SameQuiz("404")
    ELSE LET e == FindEnrollment(u, quizzes[qz].course_id) IN
         IF e = 0 /\ ~is_instructor(u) THEN SameQuiz("not_enrolled")
         ELSE IF /\ method = "POST"
                 /\ FindOpenAttempt(u, qz) = 0
                 /\ FindAnyAttempt(u, qz) # 0
         THEN SameQuiz("already_completed")
         ELSE serve_quiz(u, qz, method, form, t, FindOpenAttempt(u, qz), e # 0)

\* take_quiz with a slip: the enrollment test is left out
take_quiz_open_to_all(u, qz, method, form, t) ==
    IF qz \notin DOMAIN quizzes THEN SameQuiz("404")
    ELSE LET e == FindEnrollment(u, quizzes[qz].course_id) IN
         serve_quiz(u, qz, method, form, t, FindOpenAttempt(u, qz), e # 0)

\* take_quiz, served when utcnow() returns t; form maps the ids of the
\* quiz's questions to the submitted values
take_quiz(u, qz, method, form, t) ==
    IF qz \notin DOMAIN quizzes THEN SameQuiz("404")
    ELSE LET e == FindEnrollment(u, quizzes[qz].course_id) IN
         IF e = 0 /\ ~is_instructor(u) THEN SameQuiz("not_enrolled")
         ELSE serve_quiz(u, qz, method, form, t, FindOpenAttempt(u, qz), e # 0)

\* the owner test with a slip: an admin passes it for every course
owner_gate_admitting_admin(u, c) ==
    IF ~is_instructor(u) THEN "redirect_login"
    ELSE IF courses[c].instructor_id # u /\ ~is_admin(u) THEN "403"
    ELSE "ok"

\* the instructor_required decorator and the owner test of the quiz editing
\* handlers, for the course c: the response that ends the request, or "ok"
owner_gate(u, c) ==
    IF ~is_instructor(u) THEN "redirect_login"
    ELSE IF courses[c].instructor_id # u THEN "403"
    ELSE "ok"

\* edit_quiz with a valid QuestionForm: adds a Question, and for a
\* true_false question its two Answers
edit_quiz(u, qz, question_type, points) ==
    IF ~is_instructor(u) THEN SameQuiz("redirect_login")
    ELSE IF qz \notin DOMAIN quizzes THEN SameQuiz("404")
    ELSE IF owner_gate(u, quizzes[qz].course_id) # "ok"
    THEN SameQuiz(owner_gate(u, quizzes[qz].course_id))
    ELSE LET q == NextId(questions)
             a == NextId(answers)
         IN  [SameQuiz("question_added") EXCEPT
                !.questions = questions @@
                    (q :> [quiz_id |-> qz, question_type |-> question_type,
                           points |-> points]),
                !.answers =
                    IF question_type = "true_false"
                    THEN answers @@
                         (a :> [question_id |-> q, text |-> "True",
                                is_correct |-> FALSE]) @@
                         ((a + 1) :> [question_id |-> q, text |-> "False",
                                      is_correct |-> FALSE])
                    ELSE answers]

\* edit_question with a slip: a second correct Answer is refused
edit_question_one_correct(u, q, text, is_correct) ==
    IF ~is_instructor(u) THEN SameQuiz("redirect_login")
    ELSE IF q \notin DOMAIN questions THEN SameQuiz("404")
    ELSE IF owner_gate(u, quizzes[questions[q].quiz_id].course_id) # "ok"
    THEN SameQuiz(owner_gate(u, quizzes[questions[q].quiz_id].course_id))
    ELSE IF questions[q].question_type = "short_answer"
    THEN SameQuiz("rendered")
    ELSE IF is_correct /\ \E a \in AnswersOf(q) : answers[a].is_correct
    THEN SameQuiz("rendered")
    ELSE [SameQuiz("answer_added") EXCEPT
            !.answers = answers @@
                (NextId(answers) :> [question_id |-> q, text |-> text,
                                     is_correct |-> is_correct])]

\* edit_question with a valid AnswerForm: adds an Answer unless the
\* question is a short_answer one
edit_question(u, q, text, is_correct) ==
    IF ~is_instructor(u) THEN SameQuiz("redirect_login")
    ELSE IF q \notin DOMAIN questions THEN SameQuiz("404")
    ELSE IF owner_gate(u, quizzes[questions[q].quiz_id].course_id) # "ok"
    THEN SameQuiz(owner_gate(u, quizzes[questions[q].quiz_id].course_id))
    ELSE IF questions[q].question_type = "short_answer"
    THEN SameQuiz("rendered")
    ELSE [SameQuiz("answer_added") EXCEPT
            !.answers = answers @@
                (NextId(answers) :> [question_id |-> q, text |-> text,
                                     is_correct |-> is_correct])]

\* delete_question with a slip: the answers of the question stay
delete_question_keeping_answers(u, q) ==
    IF ~is_instructor(u) THEN SameQuiz("redirect_login")
    ELSE IF q \notin DOMAIN questions THEN SameQuiz("404")
    ELSE IF owner_gate(u, quizzes[questions[q].quiz_id].course_id) # "ok"
    THEN SameQuiz(owner_gate(u, quizzes[questions[q].quiz_id].course_id))
    ELSE [SameQuiz("question_deleted") EXCEPT
            !.questions = Without(questions, {q})]

\* delete_question: the question goes, and by the cascade its answers
delete_question(u, q) ==
    IF ~is_instructor(u) THEN SameQuiz("redirect_login")
    ELSE IF q \notin DOMAIN questions THEN SameQuiz("404")
    ELSE IF owner_gate(u, quizzes[questions[q].quiz_id].course_id) # "ok"
    THEN SameQuiz(owner_gate(u, quizzes[questions[q].quiz_id].course_id))
    ELSE [SameQuiz("question_deleted") EXCEPT
            !.questions = Without(questions, {q}),
            !.answers = Without(answers, AnswersOf(q))]

\* delete_answer
delete_answer(u, a) ==
    IF ~is_instructor(u) THEN SameQuiz("redirect_login")
    ELSE IF a \notin DOMAIN answers THEN SameQuiz("404")
    ELSE IF owner_gate(u, quizzes[questions[answers[a].question_id].quiz_id]
                              .course_id) # "ok"
    THEN SameQuiz(owner_gate(u,
             quizzes[questions[answers[a].question_id].quiz_id].course_id))
    ELSE [SameQuiz("answer_deleted") EXCEPT !.answers = Without(answers, {a})]

---------------------------------------------------------------------------
(* The quiz actions.  The course is course 1, of instructor 3, in which   *)
(* student 1 is enrolled and student 2 is not; it has one quiz.            *)

\* the ids a Quiz row may take
QuizIds == {1}

QuestionTypes == {"multiple_choice", "true_false", "short_answer"}

\* the points a question is given (QuestionForm allows 1 and more)
PointValues == {1, 3}

\* the texts an answer is given
AnswerTexts == {"True", "False"}

\* the values a submitted form may hold for a question: nothing, a text,
\* or the id of an Answer row of any question
FormValues ==
    {None} \cup {Some(x) : x \in AnswerTexts}
           \cup {Some(ToStr(a)) : a \in DOMAIN answers}

\* the tables a quiz handler left behind become the state
CommitQuiz(r, op, u, id, method, form) ==
    /\ questions' = r.questions
    /\ answers' = r.answers
    /\ attempts' = r.attempts
    /\ last' = [op |-> op, user |-> u, id |-> id, resp |-> r.resp,
                method |-> method, form |-> form, attempt |-> r.attempt]
    /\ UNCHANGED <<now, courses, enrollments, payments, notifications,
                   quizzes, comments, contents>>

\* the forms a request may carry: a GET carries none of the fields
Forms(qz, method) ==
    IF method = "GET" THEN {[q \in QuestionsOf(qz) |-> None]}
    ELSE [QuestionsOf(qz) -> FormValues]

TakeQuiz ==
    \E u \in Users, qz \in QuizIds, method \in {"GET", "POST"} :
      \E form \in Forms(qz, method) :
      \E r \in {take_quiz(u, qz, method, form, now)} :
        /\ Len(r.attempts) <= MaxAttempts
        /\ CommitQuiz(r, "take_quiz", u, qz, method, form)

EditQuiz ==
    \E u \in Users, qz \in QuizIds, ty \in QuestionTypes,
       points \in PointValues :
        /\ NextId(questions) <= MaxQuestions
        /\ NextId(answers) + (IF ty = "true_false" THEN 1 ELSE -1)
              <= MaxAnswers
        /\ CommitQuiz(edit_quiz(u, qz, ty, points), "edit_quiz", u, qz,
                      "POST", <<>>)

EditQuestion ==
    \E u \in Users, q \in 1..MaxQuestions, text \in AnswerTexts,
       is_correct \in BOOLEAN :
        /\ NextId(answers) <= MaxAnswers
        /\ CommitQuiz(edit_question(u, q, text, is_correct),
                      "edit_question", u, q, "POST", <<>>)

DeleteQuestion ==
    \E u \in Users, q \in 1..MaxQuestions :
        CommitQuiz(delete_question(u, q), "delete_question", u, q, "POST",
                   <<>>)

DeleteAnswer ==
    \E u \in Users, a \in 1..MaxAnswers :
        CommitQuiz(delete_answer(u, a), "delete_answer", u, a, "POST", <<>>)

\* the state of the other tables when the course has its quiz
QuizCourse ==
    /\ now = 0
    /\ courses = << [instructor_id |-> 3, price |-> 0,
                     duration_days |-> DefaultDurationDays,
                     max_enrollments |-> DefaultMaxEnrollments] >>
    /\ enrollments = << NewEnrollment(1, 1, 0) >>
    /\ payments = <<>>
    /\ notifications = << [user_id |-> 1, related_id |-> 1],
                          [user_id |-> 3, related_id |-> 1] >>
    /\ quizzes = << [course_id |-> 1] >>
    /\ attempts = <<>>
    /\ comments = <<>>
    /\ contents = <<>>
    /\ last = NoRequest

---------------------------------------------------------------------------
(* SpecQuizEdit: the instructor builds the quiz.                          *)

InitQuizEdit ==
    /\ QuizCourse
    /\ questions = <<>>
    /\ answers = <<>>

NextQuizEdit ==
    \/ EditQuiz
    \/ EditQuestion
    \/ DeleteQuestion
    \/ DeleteAnswer

SpecQuizEdit == InitQuizEdit /\ [][NextQuizEdit]_vars

---------------------------------------------------------------------------
(* SpecQuiz: take_quiz requests on a quiz that the instructor has built,  *)
(* one of the quizzes of QuizCatalog, all served at the same instant.      *)

Question(qz, ty, points) ==
    [quiz_id |-> qz, question_type |-> ty, points |-> points]

Answer(q, text, is_correct) ==
    [question_id |-> q, text |-> text, is_correct |-> is_correct]

\* Quizzes that SpecQuizEdit reaches:
\*  1. the quiz as manage_quizzes creates it, without questions;
\*  2. two multiple_choice questions worth 1 and 3 points, the first with
\*     one correct answer, the second with a correct and a wrong one;
\*  3. a true_false question worth 1 point as edit_quiz creates it (both
\*     answers not correct) and a multiple_choice question worth 3 points
\*     with a correct answer;
\*  4. a true_false question worth 3 points to which the instructor added
\*     the correct answer "True", and a short_answer question worth 1.
QuizCatalog ==
    { [questions |-> <<>>, answers |-> <<>>],
      [questions |-> << Question(1, "multiple_choice", 1),
                        Question(1, "multiple_choice", 3) >>,
       answers   |-> << Answer(1, "True", TRUE), Answer(2, "True", TRUE),
                        Answer(2, "False", FALSE) >>],
      [questions |-> << Question(1, "true_false", 1),
                        Question(1, "multiple_choice", 3) >>,
       answers   |-> << Answer(1, "True", FALSE), Answer(1, "False", FALSE),
                        Answer(2, "True", TRUE) >>],
      [questions |-> << Question(1, "true_false", 3),
                        Question(1, "short_answer", 1) >>,
       answers   |-> << Answer(1, "True", FALSE), Answer(1, "False", FALSE),
                        Answer(1, "True", TRUE) >>] }

InitQuiz ==
    /\ QuizCourse
    /\ \E quiz \in QuizCatalog :
          /\ questions = quiz.questions
          /\ answers = quiz.answers

NextQuiz ==
    \/ TakeQuiz

SpecQuiz == InitQuiz /\ [][NextQuiz]_vars

\* every quiz of QuizCatalog is a state of the tables SpecQuizEdit reaches
CatalogQuizNotBuilt(k) ==
    ~(\E quiz \in QuizCatalog :
        /\ Len(quiz.questions) + Len(quiz.answers) = k
        /\ questions = quiz.questions /\ answers = quiz.answers)

---------------------------------------------------------------------------
(* SpecAuth: requests by users of every role to handlers that turn users  *)
(* away: edit_course (instructor_required, then the owner test), the      *)
(* comment handlers of one forum thread, and the admin page admin_courses. *)

\* the outcome of a forum or admin handler that changes nothing
SameForum(resp) == [comments |-> comments, resp |-> resp]

\* add_comment with a valid CommentForm, on an existing thread; the
\* Notification it adds after its commit is never committed
add_comment(u, thread) ==
    [SameForum("comment_added") EXCEPT
        !.comments = comments @@
            (NextId(comments) :> [discussion_id |-> thread, author_id |-> u])]

\* delete_comment: only the comment's author or an admin
delete_comment(u, c) ==
    IF c \notin DOMAIN comments THEN SameForum("404")
    ELSE IF comments[c].author_id # u /\ ~is_admin(u) THEN SameForum("403")
    ELSE [SameForum("comment_deleted") EXCEPT !.comments = Without(comments, {c})]

\* admin_courses: admin_required, then the page
admin_courses(u) ==
    IF ~is_admin(u) THEN SameForum("redirect_login") ELSE SameForum("rendered")

\* the ids a Discussion row may take
ThreadIds == {1}

\* the table a forum or admin handler left behind becomes the state
CommitForum(r, op, u, id) ==
    /\ comments' = r.comments
    /\ last' = [op |-> op, user |-> u, id |-> id, resp |-> r.resp]
    /\ UNCHANGED <<now, courses, enrollments, payments, notifications,
                   quizTables, contents>>

AddComment ==
    \E u \in Users, thread \in ThreadIds :
        /\ NextId(comments) <= MaxComments
        /\ CommitForum(add_comment(u, thread), "add_comment", u, thread)

DeleteComment ==
    \E u \in Users, c \in 1..MaxComments :
        CommitForum(delete_comment(u, c), "delete_comment", u, c)

AdminCourses ==
    \E u \in Users :
        CommitForum(admin_courses(u), "admin_courses", u, 0)

\* one course, created by the instructor or by the admin
InitAuth ==
    /\ now = 0
    /\ \E owner \in {u \in Users : is_instructor(u)} :
          courses = << [instructor_id |-> owner, price |-> 0,
                        duration_days |-> DefaultDurationDays,
                        max_enrollments |-> DefaultMaxEnrollments] >>
    /\ enrollments = <<>>
    /\ payments = <<>>
    /\ notifications = <<>>
    /\ quizzes = <<>>
    /\ questions = <<>>
    /\ answers = <<>>
    /\ attempts = <<>>
    /\ comments = <<>>
    /\ contents = <<>>
    /\ last = NoRequest

NextAuth ==
    \/ EditCourse
    \/ AddComment
    \/ DeleteComment
    \/ AdminCourses

SpecAuth == InitAuth /\ [][NextAuth]_vars

---------------------------------------------------------------------------
(* SpecOwner: the handlers that change a course, its content and its      *)
(* quizzes, requested by users of every role on a course that another     *)
(* instructor created.                                                     *)

\* the outcome of a content or quiz-list handler that changes nothing
SameCourseware(resp) ==
    [contents |-> contents, quizzes |-> quizzes, resp |-> resp]

\* manage_content with a valid ContentForm: adds a Content row
manage_content(u, c) ==
    IF ~is_instructor(u) THEN SameCourseware("redirect_login")
    ELSE IF c \notin DOMAIN courses THEN SameCourseware("404")
    ELSE IF courses[c].instructor_id # u THEN SameCourseware("403")
    ELSE [SameCourseware("content_added") EXCEPT
            !.contents = contents @@ (NextId(contents) :> [course_id |-> c])]

\* delete_content
delete_content(u, k) ==
    IF ~is_instructor(u) THEN SameCourseware("redirect_login")
    ELSE IF k \notin DOMAIN contents THEN SameCourseware("404")
    ELSE IF courses[contents[k].course_id].instructor_id # u
    THEN SameCourseware("403")
    ELSE [SameCourseware("content_deleted") EXCEPT
            !.contents = Without(contents, {k})]

\* manage_quizzes with a valid QuizForm: adds a Quiz row
manage_quizzes(u, c) ==
    IF ~is_instructor(u) THEN SameCourseware("redirect_login")
    ELSE IF c \notin DOMAIN courses THEN SameCourseware("404")
    ELSE IF courses[c].instructor_id # u THEN SameCourseware("403")
    ELSE [SameCourseware("quiz_created") EXCEPT
            !.quizzes = Append(quizzes, [course_id |-> c])]

\* the tables a content or quiz-list handler left behind become the state
CommitCourseware(r, op, u, id) ==
    /\ contents' = r.contents
    /\ quizzes' = r.quizzes
    /\ last' = [op |-> op, user |-> u, id |-> id, resp |-> r.resp]
    /\ UNCHANGED <<now, courses, enrollments, payments, notifications,
                   questions, answers, attempts, comments>>

ManageContent ==
    \E u \in Users, c \in CourseIds :
        /\ NextId(contents) <= MaxContents
        /\ CommitCourseware(manage_content(u, c), "manage_content", u, c)

DeleteContent ==
    \E u \in Users, k \in 1..MaxContents :
        CommitCourseware(delete_content(u, k), "delete_content", u, k)

ManageQuizzes ==
    \E u \in Users, c \in CourseIds :
        /\ Len(quizzes) < MaxQuizzes
        /\ CommitCourseware(manage_quizzes(u, c), "manage_quizzes", u, c)

\* the id of an instructor account that sends no request
OtherInstructor == 5

\* a quiz SpecQuizEdit reaches that has room for a question and an answer
SmallQuiz ==
    [questions |-> << Question(1, "multiple_choice", 1) >>,
     answers   |-> << Answer(1, "True", TRUE) >>]

\* a course of the other instructor, free or paid, with or without a
\* Content row, and with SmallQuiz or one of the quizzes of QuizCatalog
InitOwner ==
    /\ now = 0
    /\ \E price \in {0, PaidPrice} :
          courses = << [instructor_id |-> OtherInstructor, price |-> price,
                        duration_days |-> DefaultDurationDays,
                        max_enrollments |-> DefaultMaxEnrollments] >>
    /\ enrollments = <<>>
    /\ payments = <<>>
    /\ notifications = <<>>
    /\ quizzes = << [course_id |-> 1] >>
    /\ \E quiz \in QuizCatalog \cup {SmallQuiz} :
          /\ questions = quiz.questions
          /\ answers = quiz.answers
    /\ attempts = <<>>
    /\ comments = <<>>
    /\ contents \in {<<>>, << [course_id |-> 1] >>}
    /\ last = NoRequest

NextOwner ==
    \/ EditCourse
    \/ ManageContent
    \/ DeleteContent
    \/ ManageQuizzes
    \/ EditQuiz
    \/ EditQuestion
    \/ DeleteQuestion
    \/ DeleteAnswer

SpecOwner == InitOwner /\ [][NextOwner]_vars

---------------------------------------------------------------------------
(* SpecAccess: the Enrollment methods that read and renew the access of   *)
(* one enrollment, active or not, with or without an expiry, while the    *)
(* clock advances.                                                        *)

\* the instants an expiry is set to at the start
ExpiryInstants == 0..(MaxNow + 1)

\* a call of a method that returns value and changes nothing
Returned(op, i, value) ==
    /\ last' = [op |-> op, user |-> 0, id |-> i, resp |-> "returned",
                value |-> value]
    /\ UNCHANGED <<now, courses, enrollments, payments, notifications,
                   quizTables, comments, contents>>

IsExpired ==
    \E i \in DOMAIN enrollments :
        Returned("is_expired", i, is_expired(enrollments[i], now))

HasAccess ==
    \E i \in DOMAIN enrollments :
        Returned("has_access", i, has_access(enrollments[i], now))

DaysUntilExpiry ==
    \E i \in DOMAIN enrollments :
        Returned("days_until_expiry", i,
                 days_until_expiry(enrollments[i], now))

InitAccess ==
    /\ now = 0
    /\ courses = << [instructor_id |-> 3, price |-> 0,
                     duration_days |-> DefaultDurationDays,
                     max_enrollments |-> DefaultMaxEnrollments] >>
    /\ \E active \in BOOLEAN,
          expiry \in {None} \cup {Some(t) : t \in ExpiryInstants} :
          enrollments = << [NewEnrollment(1, 1, 0) EXCEPT
                               !.is_active = active,
                               !.expires_at = expiry] >>
    /\ payments = <<>>
    /\ notifications = << [user_id |-> 1, related_id |-> 1],
                          [user_id |-> 3, related_id |-> 1] >>
    /\ quizzes = <<>>
    /\ questions = <<>>
    /\ answers = <<>>
    /\ attempts = <<>>
    /\ comments = <<>>
    /\ contents = <<>>
    /\ last = NoRequest

NextAccess ==
    \/ Tick
    \/ RenewSubscription
    \/ IsExpired
    \/ HasAccess
    \/ DaysUntilExpiry

SpecAccess == InitAccess /\ [][NextAccess]_vars

---------------------------------------------------------------------------
(* SpecCapacity: enrollments by the free route and by the paid route in a *)
(* course whose max_enrollments is the column default or the least value  *)
(* the course form allows.                                                 *)

\* the values of Course.max_enrollments (forms.py allows 1 and more)
Capacities == {1, DefaultMaxEnrollments}

InitCapacity ==
    /\ now = 0
    /\ \E price \in {0, PaidPrice}, cap \in Capacities :
          courses = << [instructor_id |-> 3, price |-> price,
                        duration_days |-> DefaultDurationDays,
                        max_enrollments |-> cap] >>
    /\ enrollments = <<>>
    /\ payments = <<>>
    /\ notifications = <<>>
    /\ quizzes = <<>>
    /\ questions = <<>>
    /\ answers = <<>>
    /\ attempts = <<>>
    /\ comments = <<>>
    /\ contents = <<>>
    /\ last = NoRequest

NextCapacity ==
    \/ EnrollCourse
    \/ CreateCheckoutSession
    \/ PaymentSuccess

SpecCapacity == InitCapacity /\ [][NextCapacity]_vars

---------------------------------------------------------------------------
(* Claims about enrollment and payment, checked under Spec. *)

\* the Enrollment rows a step added, by id
Added == (DOMAIN enrollments') \ (DOMAIN enrollments)

\* the instants at which an expiry is looked at
Instants == 0..(MaxNow + timedelta(DefaultDurationDays))

C8_PaidEnrollmentOnlyOnConfirmation ==
    [][/\ \A i \in Added :
             courses[enrollments'[i].course_id].price > 0 =>
                /\ last'.op = "payment_success"
                /\ \E p \in DOMAIN payments :
                      /\ payments[p].status = "pending"
                      /\ payments'[p].status = "completed"
                      /\ payments[p].user_id = enrollments'[i].student_id
                      /\ payments[p].course_id = enrollments'[i].course_id
       /\ (last'.op = "enroll_course" /\ last'.id \in DOMAIN courses
              /\ courses[last'.id].price > 0) => enrollments' = enrollments
      ]_vars

\* C8 witness: payment_success enrolled a student in a paid course.
C8_Witness ==
    /\ last.op = "payment_success" /\ last.resp = "paid"
    /\ courses[last.id].price > 0
    /\ \E i \in DOMAIN enrollments :
          /\ enrollments[i].student_id = last.user
          /\ enrollments[i].course_id = last.id

\* C9: enroll_course on a course of price 0, by a student with no
\* Enrollment for it, adds in that request exactly one Enrollment for the
\* pair, with is_active true, subscription_type 'unlimited' and expires_at
\* null, and such an enrollment is expired at no instant.
C9_FreeEnrollmentUnlimited ==
    [][(/\ last'.op = "enroll_course"
        /\ last'.id \in DOMAIN courses
        /\ courses[last'.id].price = 0
        /\ FindEnrollment(last'.user, last'.id) = 0)
       => /\ Len(enrollments') = Len(enrollments) + 1
          /\ \A i \in DOMAIN enrollments : enrollments'[i] = enrollments[i]
          /\ LET e == enrollments'[Len(enrollments')] IN
                /\ e.student_id = last'.user
                /\ e.course_id = last'.id
                /\ e.is_active
                /\ e.subscription_type = "unlimited"
                /\ e.expires_at = None
                /\ \A t \in Instants : ~is_expired(e, t) /\ has_access(e, t)
      ]_vars

\* C9 witness: enroll_course has just enrolled a student in a free course.
C9_Witness ==
    /\ last.op = "enroll_course" /\ last.resp = "enrolled"
    /\ courses[last.id].price = 0
    /\ enrollments[Len(enrollments)].student_id = last.user

---------------------------------------------------------------------------
(* Claims about the Enrollment methods, checked under SpecRenew. *)

Max(a, b) == IF a >= b THEN a ELSE b

\* C4: renew_subscription(d) on an enrollment whose expires_at is still in
\* the future sets expires_at to the old expires_at plus d days; on an
\* expired enrollment it sets expires_at to now plus d days; in both cases
\* the new expiry is d days after the later of now and the old expiry, now
\* being a reading of the clock taken during the call.
C4_RenewExtendsFromLater ==
    [][last'.op = "renew_subscription" =>
        LET old == enrollments[last'.id].expires_at
            new == enrollments'[last'.id].expires_at
            d   == last'.d
        IN  old # None =>
              /\ now < old[1] => new = Some(old[1] + d * TicksPerDay)
              /\ now > old[1] =>
                    /\ new = Some(last'.read + d * TicksPerDay)
                    /\ last'.read \in now..now'
              /\ \E t \in now..now' :
                    new = Some(Max(t, old[1]) + d * TicksPerDay)
      ]_vars

\* C4 witness: renew_subscription has run on an enrollment whose expiry had
\* passed, and the new expiry counts from the clock.
C4_Witness ==
    /\ last.op = "renew_subscription"
    /\ last.old # None
    /\ last.read > last.old[1]
    /\ enrollments[last.id].expires_at = Some(last.read + last.d * TicksPerDay)

\* renew_subscription has run on an enrollment whose expiry was still ahead
C4_ExtendedBeforeExpiry ==
    /\ last.op = "renew_subscription"
    /\ last.old # None
    /\ last.read < last.old[1]
    /\ enrollments[last.id].expires_at = Some(last.old[1] + last.d * TicksPerDay)

\* C10: set_expiry_date leaves expires_at equal to enrolled_at plus the
\* course's duration_days days, which is what calculate_expiry_date returns
\* for the enrollment date, and changes nothing else of the enrollment.
C10_ExpiryIsEnrollmentPlusDuration ==
    [][last'.op = "set_expiry_date" =>
        LET e == enrollments[last'.id]
            c == courses[e.course_id]
        IN  /\ enrollments'[last'.id] =
                  [e EXCEPT !.expires_at =
                      Some(e.enrolled_at + c.duration_days * TicksPerDay)]
            /\ \A t \in 0..MaxNow :
                  calculate_expiry_date(c, t) = t + c.duration_days * TicksPerDay
      ]_vars

\* C10 witness: set_expiry_date has run, after a renewal, on an enrollment
\* of a course whose duration is not the default.
C10_Witness ==
    /\ last.op = "set_expiry_date"
    /\ courses[1].duration_days # DefaultDurationDays
    /\ enrollments[last.id].subscription_renewed # None
    /\ enrollments[last.id].expires_at =
          Some(enrollments[last.id].enrolled_at
                 + courses[1].duration_days * TicksPerDay)

---------------------------------------------------------------------------
(* Claims about quiz attempts, checked under SpecQuiz. *)

\* the attempts of user u at quiz qz, by id
AttemptsOf(u, qz) ==
    {i \in DOMAIN attempts :
        attempts[i].student_id = u /\ attempts[i].quiz_id = qz}

\* those of them that are completed
CompletedOf(u, qz) == {i \in AttemptsOf(u, qz) : attempts[i].completed}

\* the last request was a take_quiz submission that got past the
\* enrollment test
Submitted ==
    /\ last.op = "take_quiz"
    /\ last.method = "POST"
    /\ last.resp \notin {"404", "not_enrolled"}

\* C1: after any sequence of take_quiz requests there is at most one
\* QuizAttempt with completed = false for each (student, quiz) pair.
C1_OneOpenAttemptPerPair ==
    \A u \in Users, qz \in QuizIds :
        Cardinality(AttemptsOf(u, qz) \ CompletedOf(u, qz)) <= 1

\* C1 witness: a GET has been served to a user who had completed an attempt
\* at the quiz, and the user has exactly one attempt in progress.
C1_Witness ==
    /\ last.op = "take_quiz"
    /\ last.resp = "taking"
    /\ CompletedOf(last.user, last.id) # {}
    /\ AttemptsOf(last.user, last.id) \ CompletedOf(last.user, last.id)
          = {last.attempt}

\* question q is correctly answered by the submitted value: the value is
\* the id of an Answer of q that is marked correct (multiple_choice), or
\* the text of an Answer of q that is marked correct (true_false); a
\* short_answer question is never scored
correctly_answered(q, value) ==
    /\ value # None
    /\ \E a \in AnswersOf(q) :
          /\ answers[a].is_correct
          /\ \/ /\ questions[q].question_type = "multiple_choice"
                /\ value[1] = ToStr(a)
             \/ /\ questions[q].question_type = "true_false"
                /\ value[1] = answers[a].text

\* the sum of the points of the questions of qs that form answers correctly
RECURSIVE points_earned(_, _)
points_earned(qs, form) ==
    IF qs = {} THEN 0
    ELSE LET q == Min(qs) IN
         (IF correctly_answered(q, form[q]) THEN questions[q].points ELSE 0)
            + points_earned(qs \ {q}, form)

\* C5: when take_quiz scores a submitted attempt, the stored score is the
\* sum of the points of the correctly answered questions divided by the sum
\* of the points of all questions of the quiz, times 100; with questions
\* worth 1 and 3 points, answering only the 3-point one correctly yields 75.
C5_ScoreIsShareOfPoints ==
    (Submitted /\ total_points(QuestionsOf(last.id)) > 0) =>
        attempts[last.attempt].score =
            Ratio(points_earned(QuestionsOf(last.id), last.form) * 100,
                  total_points(QuestionsOf(last.id)))

\* C6: once an attempt has completed = true, no later request changes its
\* score, its completed flag or its completed_at.
C6_CompletedAttemptImmutable ==
    [][\A i \in DOMAIN attempts :
          attempts[i].completed =>
              /\ i \in DOMAIN attempts'
              /\ attempts'[i].score = attempts[i].score
              /\ attempts'[i].completed
              /\ attempts'[i].completed_at = attempts[i].completed_at
      ]_vars

\* C6 witness: a submission has been scored for a user who has an earlier
\* completed attempt at the same quiz with another score.
C6_Witness ==
    /\ Submitted
    /\ \E i \in CompletedOf(last.user, last.id) :
          /\ i < last.attempt
          /\ attempts[i].score # attempts[last.attempt].score

\* C7 as stated: after a student's attempt at a quiz has been completed, a
\* second submission by the same student for the same quiz is blocked by
\* the completed flag: it scores nothing and produces no other completed
\* attempt.
C7_SecondSubmissionBlocked ==
    [][\A u \in Users, qz \in QuizIds :
          (/\ CompletedOf(u, qz) # {}
           /\ last'.op = "take_quiz" /\ last'.method = "POST"
           /\ last'.user = u /\ last'.id = qz)
          => /\ CompletedOf(u, qz)' = CompletedOf(u, qz)
             /\ \A i \in DOMAIN attempts :
                   attempts'[i].score = attempts[i].score
      ]_vars

\* C7 amended: after a student's attempt at a quiz has been completed, a
\* second submission by the same student for the same quiz is not blocked:
\* the completed attempts stay as they are, and the submission scores the
\* student's attempt in progress, or a new attempt when there is none, and
\* marks it completed, so the student has one more completed attempt.
C7_SecondSubmissionScoresAnew ==
    [][\A u \in Users, qz \in QuizIds :
          (/\ CompletedOf(u, qz) # {}
           /\ last'.op = "take_quiz" /\ last'.method = "POST"
           /\ last'.user = u /\ last'.id = qz
           /\ last'.resp \notin {"404", "not_enrolled"})
          => /\ last'.attempt \notin CompletedOf(u, qz)
             /\ CompletedOf(u, qz)' = CompletedOf(u, qz) \cup {last'.attempt}
             /\ \A i \in CompletedOf(u, qz) : attempts'[i] = attempts[i]
             /\ attempts'[last'.attempt].score =
                   percentage_score(QuestionsOf(qz), last'.form)
      ]_vars

\* C7 witness: a student's submission has been scored, and the student has
\* two completed attempts at the quiz and none in progress.
C7_Witness ==
    /\ Submitted
    /\ last.user \in Students
    /\ Cardinality(CompletedOf(last.user, last.id)) = 2
    /\ AttemptsOf(last.user, last.id) = CompletedOf(last.user, last.id)

\* C11: whatever is submitted for a short_answer question, the question
\* adds 0 points to the numerator of the score take_quiz computes: the
\* stored score is the one any other value for that question gives, and the
\* one the quiz without that question's points in the numerator gives.
C11_ShortAnswerNeverScored ==
    Submitted =>
        \A q \in QuestionsOf(last.id) :
            questions[q].question_type = "short_answer" =>
                /\ awarded(q, last.form[q]) = 0
                /\ \A v \in FormValues :
                      attempts[last.attempt].score =
                          percentage_score(QuestionsOf(last.id),
                                           [last.form EXCEPT ![q] = v])
                /\ attempts[last.attempt].score =
                      Ratio(score_loop(QuestionsOf(last.id) \ {q},
                                       last.form, 0) * 100,
                            total_points(QuestionsOf(last.id)))

\* C11 witness: a submission with a value for a short_answer question has
\* been scored, and the other question earned its points.
C11_Witness ==
    /\ Submitted
    /\ \E q \in QuestionsOf(last.id) :
          /\ questions[q].question_type = "short_answer"
          /\ last.form[q] = Some("True")
    /\ attempts[last.attempt].score = Ratio(75, 1)

\* the true_false questions of the quiz the last request was for
TrueFalseOf(qz) ==
    {q \in QuestionsOf(qz) : questions[q].question_type = "true_false"}

\* the multiple_choice questions of the quiz
MultipleChoiceOf(qz) ==
    {q \in QuestionsOf(qz) : questions[q].question_type = "multiple_choice"}

\* C12: a true_false question is counted as correctly answered exactly when
\* the text submitted for it equals the text of the question's stored
\* Answer that has is_correct = true.
C12_TrueFalseByCorrectText ==
    Submitted =>
        \A q \in TrueFalseOf(last.id) :
            (awarded(q, last.form[q]) = questions[q].points)
            <=> (/\ last.form[q] # None
                 /\ \E a \in AnswersOf(q) :
                       /\ answers[a].is_correct
                       /\ answers[a].text = last.form[q][1])

\* a multiple_choice question counts for the submitted value: an id was
\* submitted, an Answer with that id exists, and it is marked correct
counted_by_id(value) ==
    /\ value # None
    /\ \E a \in DOMAIN answers :
          ToStr(a) = value[1] /\ answers[a].is_correct

\* the numerator of the score when the multiple_choice questions of qs
\* count by counted_by_id and the others as the scoring loop counts them
RECURSIVE points_by_id(_, _)
points_by_id(qs, form) ==
    IF qs = {} THEN 0
    ELSE LET q == Min(qs) IN
         (IF questions[q].question_type = "multiple_choice"
          THEN IF counted_by_id(form[q]) THEN questions[q].points ELSE 0
          ELSE awarded(q, form[q]))
            + points_by_id(qs \ {q}, form)

\* C13: a multiple_choice question is counted as correctly answered
\* exactly when an answer id was submitted for it, an Answer with that id
\* exists, and that Answer has is_correct = true; the stored score counts
\* the multiple_choice questions so.
C13_MultipleChoiceById ==
    Submitted =>
        /\ \A q \in MultipleChoiceOf(last.id) :
              (awarded(q, last.form[q]) = questions[q].points)
              <=> counted_by_id(last.form[q])
        /\ total_points(QuestionsOf(last.id)) > 0 =>
              attempts[last.attempt].score =
                  Ratio(points_by_id(QuestionsOf(last.id), last.form) * 100,
                        total_points(QuestionsOf(last.id)))

\* C13 witness: a submission has been scored in which one multiple_choice
\* question got the id of its wrong Answer and earned nothing, and the
\* other got the id of a correct Answer of another question and earned its
\* points.
C13_Witness ==
    /\ Submitted
    /\ \E q1, q2 \in MultipleChoiceOf(last.id) :
          /\ \E a \in AnswersOf(q1) :
                /\ last.form[q1] = Some(ToStr(a))
                /\ ~answers[a].is_correct
          /\ \E a \in DOMAIN answers \ AnswersOf(q2) :
                /\ last.form[q2] = Some(ToStr(a))
                /\ answers[a].is_correct
          /\ attempts[last.attempt].score =
                Ratio(questions[q2].points * 100,
                      total_points(QuestionsOf(last.id)))

---------------------------------------------------------------------------
(* Claims about authorization, checked under SpecAuth. *)

\* the step served a request that the handler rejects for want of
\* authorization: the wrong role for an instructor-only or admin-only
\* route
RoleRejected ==
    \/ last'.op = "edit_course" /\ ~is_instructor(last'.user)
    \/ last'.op = "admin_courses" /\ ~is_admin(last'.user)

\* or a user who passed the role test and is not the owner of the course
\* or comment the request is about
OwnerRejected ==
    \/ /\ last'.op = "edit_course" /\ is_instructor(last'.user)
       /\ last'.id \in DOMAIN courses
       /\ courses[last'.id].instructor_id # last'.user
    \/ /\ last'.op = "delete_comment"
       /\ last'.id \in DOMAIN comments
       /\ comments[last'.id].author_id # last'.user
       /\ ~is_admin(last'.user)

\* C14 as stated: every request that is rejected because the user lacks
\* authorization (wrong role, or not the owner) is answered with HTTP 403.
C14_RejectedWith403 ==
    [][(RoleRejected \/ OwnerRejected) => last'.resp = "403"]_vars

\* C14 amended: a request rejected because the user is not the owner of
\* the course or comment is answered with HTTP 403; a request rejected by
\* instructor_required or admin_required because of the user's role is
\* answered with a redirect to the login page; neither changes a table.
C14_OwnerGets403RoleGetsRedirect ==
    [][/\ OwnerRejected => last'.resp = "403"
       /\ RoleRejected => last'.resp = "redirect_login"
       /\ (RoleRejected \/ OwnerRejected) =>
             UNCHANGED <<courses, enrollments, payments, notifications,
                         quizTables, comments, contents>>
      ]_vars

\* C14 witness: a student asked for edit_course and was sent to the login
\* page, while the thread holds a comment of another user.
C14_Witness ==
    /\ last.op = "edit_course"
    /\ last.user \in Students
    /\ last.resp = "redirect_login"
    /\ \E c \in DOMAIN comments : comments[c].author_id # last.user

\* a user who is not the comment's author got 403 from delete_comment
C14_ForbiddenSeen ==
    /\ last.op = "delete_comment"
    /\ last.resp = "403"
    /\ last.id \in DOMAIN comments

---------------------------------------------------------------------------
(* Claims about the quiz tree, checked under SpecQuizEdit. *)

\* every Answer refers to an existing Question and every Question to an
\* existing Quiz
OwnershipTree ==
    /\ \A a \in DOMAIN answers : answers[a].question_id \in DOMAIN questions
    /\ \A q \in DOMAIN questions : questions[q].quiz_id \in DOMAIN quizzes

\* C15: Quiz, Question and Answer form a strict ownership tree in every
\* reachable state; delete_question removes the question together with all
\* of its Answers and nothing else, and delete_answer removes only that
\* one Answer.
C15_StrictOwnershipTree ==
    [][/\ OwnershipTree /\ OwnershipTree'
       /\ (last'.op = "delete_question" /\ last'.resp = "question_deleted")
            => /\ DOMAIN questions' = DOMAIN questions \ {last'.id}
               /\ DOMAIN answers' = DOMAIN answers \ AnswersOf(last'.id)
               /\ \A q \in DOMAIN questions' : questions'[q] = questions[q]
               /\ \A a \in DOMAIN answers' : answers'[a] = answers[a]
       /\ (last'.op = "delete_answer" /\ last'.resp = "answer_deleted")
            => /\ questions' = questions
               /\ DOMAIN answers' = DOMAIN answers \ {last'.id}
               /\ \A a \in DOMAIN answers' : answers'[a] = answers[a]
      ]_vars

\* C15 witness: question 1 has been deleted, no answer of it is left, and
\* question 2 still has its answer.
C15_Witness ==
    /\ last.op = "delete_question"
    /\ last.resp = "question_deleted"
    /\ last.id = 1
    /\ DOMAIN questions = {2}
    /\ DOMAIN answers = {3}
    /\ answers[3].question_id = 2

\* an answer has been deleted and the other answers of its question stay
C15_AnswerDeleted ==
    /\ last.op = "delete_answer"
    /\ last.resp = "answer_deleted"
    /\ \E a \in DOMAIN answers :
          a > last.id /\ answers[a].question_id \in DOMAIN questions

\* the Answers of question q that are marked correct
CorrectOf(q) == {a \in AnswersOf(q) : answers[a].is_correct}

\* the instructor who owns the course of question q
OwnerOf(q) == courses[quizzes[questions[q].quiz_id].course_id].instructor_id

\* C16: one correct answer per multiple_choice or true_false question is
\* not enforced: for such a question the owner's edit_question adds an
\* Answer with whatever is_correct flag was submitted, however many correct
\* Answers the question has, the owner's delete_answer deletes any Answer,
\* the only correct one included, and edit_quiz creates a true_false
\* question with no correct Answer; so states with no correct Answer and
\* with more than one are reachable.
C16_OneCorrectNotEnforced ==
    /\ \A q \in DOMAIN questions :
          questions[q].question_type # "short_answer" =>
            /\ \A text \in AnswerTexts, is_correct \in BOOLEAN :
                  LET r == edit_question(OwnerOf(q), q, text, is_correct) IN
                  /\ r.resp = "answer_added"
                  /\ r.answers[NextId(answers)] =
                        [question_id |-> q, text |-> text,
                         is_correct |-> is_correct]
            /\ \A a \in AnswersOf(q) :
                  LET r == delete_answer(OwnerOf(q), a) IN
                  r.resp = "answer_deleted" /\ a \notin DOMAIN r.answers
    /\ \A qz \in DOMAIN quizzes, points \in PointValues :
          LET u == courses[quizzes[qz].course_id].instructor_id
              r == edit_quiz(u, qz, "true_false", points)
          IN  \A a \in DOMAIN r.answers :
                 r.answers[a].question_id = NextId(questions) =>
                    ~r.answers[a].is_correct

\* C16 witness: the owner has deleted the only correct Answer of the
\* multiple_choice question 1, which now has none, while question 2 has
\* two correct Answers.
C16_Witness ==
    /\ last.op = "delete_answer"
    /\ last.resp = "answer_deleted"
    /\ DOMAIN questions = {1, 2}
    /\ questions[1].question_type = "multiple_choice"
    /\ questions[2].question_type \in {"multiple_choice", "true_false"}
    /\ CorrectOf(1) = {}
    /\ Cardinality(CorrectOf(2)) > 1

\* a true_false question as edit_quiz has just created it: two Answers,
\* neither correct
C16_TrueFalseWithoutCorrect ==
    /\ last.op = "edit_quiz"
    /\ last.resp = "question_added"
    /\ \E q \in DOMAIN questions :
          /\ questions[q].question_type = "true_false"
          /\ Cardinality(AnswersOf(q)) = 2
          /\ CorrectOf(q) = {}

---------------------------------------------------------------------------
(* Claims about payments, checked under Spec. *)

\* the pending Payments of user u for course c, by id
PendingOf(u, c) ==
    {i \in DOMAIN payments :
        /\ payments[i].user_id = u
        /\ payments[i].course_id = c
        /\ payments[i].status = "pending"}

\* the Enrollments of user u in course c, by id
EnrollmentsOf(u, c) ==
    {i \in DOMAIN enrollments :
        enrollments[i].student_id = u /\ enrollments[i].course_id = c}

\* C17: payment_success for (user, course) with at least one pending
\* Payment of the pair marks exactly one pending Payment as completed and
\* creates exactly one Enrollment for the pair; with no pending Payment of
\* the pair it changes no Payment and creates no Enrollment.
C17_PaymentSuccessCompletesOne ==
    [][\A u \in Users, c \in DOMAIN courses :
        (last'.op = "payment_success" /\ last'.user = u /\ last'.id = c) =>
            /\ DOMAIN payments' = DOMAIN payments
            /\ PendingOf(u, c) # {} =>
                  /\ \E p \in PendingOf(u, c) :
                        /\ payments' =
                              [payments EXCEPT ![p].status = "completed"]
                        /\ PendingOf(u, c)' = PendingOf(u, c) \ {p}
                  /\ Added = {Len(enrollments) + 1}
                  /\ EnrollmentsOf(u, c)' = EnrollmentsOf(u, c) \cup Added
                  /\ \A i \in DOMAIN enrollments :
                        enrollments'[i] = enrollments[i]
            /\ PendingOf(u, c) = {} =>
                  /\ payments' = payments
                  /\ enrollments' = enrollments
      ]_vars

\* C17 witness: payment_success has completed one of two pending Payments
\* of the pair; the other is still pending, and the pair has an
\* Enrollment.
C17_Witness ==
    /\ last.op = "payment_success"
    /\ last.resp = "paid"
    /\ PendingOf(last.user, last.id) # {}
    /\ \E i \in DOMAIN payments :
          /\ payments[i].user_id = last.user
          /\ payments[i].course_id = last.id
          /\ payments[i].status = "completed"
    /\ Cardinality(EnrollmentsOf(last.user, last.id)) = 1

\* C18: a Payment's status is always one of pending, completed, failed; it
\* starts as pending, changes only from pending to completed
\* (payment_success) or from pending to failed (payment_cancel), and a
\* completed or failed Payment never changes status again; no Payment row
\* is removed.
C18_PaymentStatusLifecycle ==
    [][/\ DOMAIN payments \subseteq DOMAIN payments'
       /\ \A i \in DOMAIN payments' :
             /\ payments'[i].status \in {"pending", "completed", "failed"}
             /\ i \notin DOMAIN payments => payments'[i].status = "pending"
             /\ (i \in DOMAIN payments
                   /\ payments'[i].status # payments[i].status) =>
                   /\ payments[i].status = "pending"
                   /\ \/ /\ payments'[i].status = "completed"
                         /\ last'.op = "payment_success"
                      \/ /\ payments'[i].status = "failed"
                         /\ last'.op = "payment_cancel"
      ]_vars

\* C18 witness: payment_cancel has been served for a pair whose Payments
\* are one completed and one failed, and found nothing to cancel.
C18_Witness ==
    /\ last.op = "payment_cancel"
    /\ last.resp = "nothing_pending"
    /\ \E i, j \in DOMAIN payments :
          /\ payments[i].user_id = last.user
          /\ payments[j].user_id = last.user
          /\ payments[i].status = "completed"
          /\ payments[j].status = "failed"

\* C19: when creating the external checkout session fails,
\* create_checkout_session creates no Payment and leaves the database
\* unchanged; a pending Payment is recorded only after the provider
\* returned a session; and payment_cancel never creates or removes an
\* Enrollment.
C19_NoPaymentWithoutSession ==
    [][/\ (last'.op = "create_checkout_session" /\ last'.resp = "error") =>
             UNCHANGED <<courses, enrollments, payments, notifications,
                         quizTables, comments, contents>>
       /\ DOMAIN payments' # DOMAIN payments =>
             /\ last'.op = "create_checkout_session"
             /\ last'.resp = "session"
             /\ payments' =
                   Append(payments,
                          [user_id |-> last'.user, course_id |-> last'.id,
                           amount |-> courses[last'.id].price,
                           status |-> "pending"])
       /\ last'.op = "payment_cancel" => enrollments' = enrollments
      ]_vars

\* C19 witness: the provider call has failed for a user who has a pending
\* Payment from an earlier session for the same course, and the user has
\* exactly that Payment.
C19_Witness ==
    /\ last.op = "create_checkout_session"
    /\ last.resp = "error"
    /\ Cardinality(PendingOf(last.user, last.id)) = 1
    /\ \A i \in DOMAIN payments :
          payments[i].user_id = last.user => payments[i].status = "pending"

\* payment_cancel has failed a Payment of a user who is enrolled
C19_CancelledWhileEnrolled ==
    /\ last.op = "payment_cancel"
    /\ last.resp = "cancelled"
    /\ EnrollmentsOf(last.user, last.id) # {}

---------------------------------------------------------------------------
(* Claims about repeated enrollment, checked under SpecEnroll. *)

\* C20: enroll_course for a (student, course) pair that already has an
\* Enrollment, expired or not, creates no Enrollment, no Notification and
\* no Payment and leaves the existing Enrollment unchanged; hence repeating
\* enroll_course on a free course yields exactly one Enrollment of the pair
\* and one pair of enrollment notifications.
C20_EnrollAgainChangesNothing ==
    [][\A u \in Users, c \in DOMAIN courses :
        (/\ last'.op = "enroll_course" /\ last'.user = u /\ last'.id = c
         /\ EnrollmentsOf(u, c) # {})
        => /\ enrollments' = enrollments
           /\ notifications' = notifications
           /\ payments' = payments
      ]_vars

\* the same for the requests during which the clock does not advance
C20_HoldsWhileClockStands ==
    [][\A u \in Users, c \in DOMAIN courses :
        (/\ last'.op = "enroll_course" /\ last'.user = u /\ last'.id = c
         /\ EnrollmentsOf(u, c) # {} /\ now' = now)
        => /\ enrollments' = enrollments
           /\ notifications' = notifications
           /\ payments' = payments
      ]_vars

\* enroll_course has turned away a student whose enrollment had expired
C20_ExpiredSeen ==
    /\ last.op = "enroll_course"
    /\ last.resp = "expired"
    /\ Cardinality(EnrollmentsOf(last.user, last.id)) = 1

---------------------------------------------------------------------------
(* Claims about who may take a quiz, checked under SpecQuiz. *)

\* user u has an Enrollment in the course of quiz qz, or is an instructor
\* or an admin
MayTake(u, qz) ==
    \/ EnrollmentsOf(u, quizzes[qz].course_id) # {}
    \/ Role[u] \in {"instructor", "admin"}

\* C21: take_quiz creates or scores a QuizAttempt only for a user who has
\* an Enrollment in the quiz's course or who is an instructor or admin; for
\* any other user it creates no QuizAttempt and changes nothing.
C21_AttemptsOnlyForEnrolledOrStaff ==
    [][\A u \in Users, qz \in DOMAIN quizzes :
        (last'.op = "take_quiz" /\ last'.user = u /\ last'.id = qz) =>
            /\ attempts' # attempts => MayTake(u, qz)
            /\ ~MayTake(u, qz) =>
                  /\ last'.resp = "not_enrolled"
                  /\ UNCHANGED <<courses, enrollments, payments,
                                 notifications, quizTables, comments,
                                 contents>>
      ]_vars

\* C21 witness: a student without an Enrollment has submitted the quiz and
\* was turned away, while the table holds attempts of others and none of
\* that student.
C21_Witness ==
    /\ last.op = "take_quiz"
    /\ last.method = "POST"
    /\ last.resp = "not_enrolled"
    /\ Role[last.user] = "student"
    /\ EnrollmentsOf(last.user, quizzes[last.id].course_id) = {}
    /\ attempts # <<>>
    /\ AttemptsOf(last.user, last.id) = {}

\* an admin without an Enrollment has taken the quiz
C21_AdminTookQuiz ==
    /\ last.op = "take_quiz"
    /\ Role[last.user] = "admin"
    /\ AttemptsOf(last.user, last.id) # {}

---------------------------------------------------------------------------
(* Claims about course ownership, checked under SpecOwner. *)

\* the course a request for handler op with the id in its URL is about, or
\* 0 when the row the id names does not exist
CourseOfRequest(op, id) ==
    IF op \in {"edit_course", "manage_content", "manage_quizzes"}
    THEN IF id \in DOMAIN courses THEN id ELSE 0
    ELSE IF op = "delete_content"
    THEN IF id \in DOMAIN contents THEN contents[id].course_id ELSE 0
    ELSE IF op = "edit_quiz"
    THEN IF id \in DOMAIN quizzes THEN quizzes[id].course_id ELSE 0
    ELSE IF op \in {"edit_question", "delete_question"}
    THEN IF id \in DOMAIN questions
         THEN quizzes[questions[id].quiz_id].course_id ELSE 0
    ELSE IF op = "delete_answer"
    THEN IF id \in DOMAIN answers
         THEN quizzes[questions[answers[id].question_id].quiz_id].course_id
         ELSE 0
    ELSE 0

\* C22: edit_course, manage_content, delete_content, manage_quizzes,
\* edit_quiz, edit_question, delete_question and delete_answer, invoked by
\* a user whose id differs from the course's instructor_id (an admin
\* included), leave every Course, Content, Quiz, Question and Answer
\* unchanged.
C22_OnlyOwnerChangesCourse ==
    [][\A u \in Users, c \in DOMAIN courses :
        (/\ last'.user = u
         /\ CourseOfRequest(last'.op, last'.id) = c
         /\ courses[c].instructor_id # u)
        => UNCHANGED <<courses, contents, quizzes, questions, answers>>
      ]_vars

\* C22 witness: an admin asked to delete an Answer of another instructor's
\* course, got 403, and the Answer is still there.
C22_Witness ==
    /\ last.op = "delete_answer"
    /\ Role[last.user] = "admin"
    /\ last.resp = "403"
    /\ last.id \in DOMAIN answers
    /\ courses[CourseOfRequest(last.op, last.id)].instructor_id # last.user

\* the other handlers have turned away an instructor who is not the owner
C22_OthersForbidden ==
    /\ last.op \in {"edit_course", "manage_content", "delete_content",
                     "manage_quizzes", "edit_quiz", "edit_question",
                     "delete_question"}
    /\ Role[last.user] = "instructor"
    /\ last.resp = "403"

---------------------------------------------------------------------------
(* Claims about course creation, checked under Spec. *)

\* C23: create_course invoked by a user whose role is 'admin' creates no
\* Course.
C23_AdminCreatesNoCourse ==
    [][(last'.op = "create_course" /\ Role[last'.user] = "admin")
         => courses' = courses]_vars

\* a student's create_course is answered with the login redirect and
\* creates no Course; an instructor's creates one
C23_StudentCreatesNoCourse ==
    [][last'.op = "create_course" =>
         IF Role[last'.user] = "student"
         THEN courses' = courses /\ last'.resp = "redirect_login"
         ELSE Len(courses') = Len(courses) + 1]_vars

---------------------------------------------------------------------------
(* Claims about the score of a quiz attempt, checked under SpecQuiz. *)

\* C24: every completed QuizAttempt has a score between 0 and 100
\* inclusive, whatever the quiz holds and the form carries; for a quiz whose
\* questions total 0 points (a quiz with no questions included) the score
\* is 0.
C24_ScoreWithinPercent ==
    \A i \in DOMAIN attempts :
        attempts[i].completed =>
            /\ attempts[i].score.den > 0
            /\ 0 <= attempts[i].score.num
            /\ attempts[i].score.num <= 100 * attempts[i].score.den
            /\ total_points(QuestionsOf(attempts[i].quiz_id)) = 0
                  => attempts[i].score = Ratio(0, 1)

\* C24 witness: a submission for a quiz with no questions has been scored
\* and the attempt is completed with score 0.
C24_Witness ==
    /\ Submitted
    /\ QuestionsOf(last.id) = {}
    /\ attempts[last.attempt].completed
    /\ attempts[last.attempt].score = Ratio(0, 1)

\* completed attempts with score 100, and with a score strictly between 0
\* and 100, are reached
C24_FullScoreSeen ==
    \E i \in DOMAIN attempts :
        attempts[i].completed /\ attempts[i].score = Ratio(100, 1)

C24_PartScoreSeen ==
    \E i \in DOMAIN attempts :
        /\ attempts[i].completed
        /\ 0 < attempts[i].score.num
        /\ attempts[i].score.num < 100 * attempts[i].score.den

\* C25: for a multiple_choice question the points are awarded only if the
\* selected Answer belongs to that same question: a submitted id that names
\* no Answer of the question leaves the stored score as it is without a
\* value for the question.
C25_OnlyOwnAnswersScore ==
    Submitted =>
        \A q \in MultipleChoiceOf(last.id) :
            (/\ last.form[q] # None
             /\ AnswerGet(last.form[q][1]) \notin AnswersOf(q))
            => /\ awarded(q, last.form[q]) = 0
               /\ attempts[last.attempt].score =
                     percentage_score(QuestionsOf(last.id),
                                      [last.form EXCEPT ![q] = None])

\* C26: a true_false question for which no value was submitted never adds
\* points, also when none of its Answers is marked correct: the stored
\* score has none of the question's points in its numerator.
C26_BlankTrueFalseScoresNothing ==
    (Submitted /\ total_points(QuestionsOf(last.id)) > 0) =>
        \A q \in TrueFalseOf(last.id) :
            last.form[q] = None =>
                /\ awarded(q, None) = 0
                /\ attempts[last.attempt].score =
                      Ratio(score_loop(QuestionsOf(last.id) \ {q},
                                       last.form, 0) * 100,
                            total_points(QuestionsOf(last.id)))

\* a blank true_false question that has an Answer marked correct adds no
\* points
C26_BlankWithCorrectAnswerScoresNothing ==
    Submitted =>
        \A q \in TrueFalseOf(last.id) :
            (last.form[q] = None /\ correct_value(q) # None)
            => awarded(q, None) = 0

C26_BlankWithCorrectAnswerSeen ==
    /\ Submitted
    /\ \E q \in TrueFalseOf(last.id) :
          last.form[q] = None /\ correct_value(q) # None

---------------------------------------------------------------------------
(* Claims about the capacity of a course, checked under SpecCapacity. *)

\* the Enrollments of course c, by id
EnrolledIn(c) == {i \in DOMAIN enrollments : enrollments[i].course_id = c}

\* C27: after any sequence of enroll_course and payment_success operations
\* the number of Enrollments of a course never exceeds the course's
\* max_enrollments.
C27_CapacityRespected ==
    \A c \in DOMAIN courses :
        Cardinality(EnrolledIn(c)) <= courses[c].max_enrollments

\* the step is a request to handler op that adds an Enrollment to a course
\* that is full
FullCourseEnrolledBy(op) ==
    /\ last'.op = op
    /\ \E c \in DOMAIN courses :
          /\ Cardinality(EnrolledIn(c)) >= courses[c].max_enrollments
          /\ Cardinality(EnrolledIn(c)') > Cardinality(EnrolledIn(c))

\* each of the two handlers takes such a step: these two do not hold
C27_EnrollCourseStopsWhenFull ==
    [][~FullCourseEnrolledBy("enroll_course")]_vars

C27_PaymentSuccessStopsWhenFull ==
    [][~FullCourseEnrolledBy("payment_success")]_vars

---------------------------------------------------------------------------
(* Claims about access to a course, checked under SpecAccess. *)

\* C28: renew_subscription(d) with d > 0 never shortens access: the
\* enrollment never expires earlier after the call than before it, so an
\* enrollment with null expires_at keeps it; and immediately after the call
\* has_access() is true.
C28_RenewNeverShortens ==
    [][last'.op = "renew_subscription" =>
        LET old == enrollments[last'.id].expires_at
            new == enrollments'[last'.id].expires_at
        IN  /\ old = None => new = None
            /\ (old # None /\ new # None) => new[1] >= old[1]
            /\ has_access(enrollments'[last'.id], now')
      ]_vars

\* on an enrollment that has an expiry, renew_subscription sets a later
\* one; and after every call has_access() is true
C28_LimitedNeverShortened ==
    [][last'.op = "renew_subscription" =>
        LET old == enrollments[last'.id].expires_at
            new == enrollments'[last'.id].expires_at
        IN  /\ new # None
            /\ old # None => new[1] > old[1]
            /\ has_access(enrollments'[last'.id], now')
      ]_vars

\* renew_subscription never runs on an inactive enrollment whose expiry has
\* passed: this does not hold, the case is reached
C28_InactiveExpiredRenewed ==
    [][~(/\ last'.op = "renew_subscription"
         /\ ~enrollments[last'.id].is_active
         /\ is_expired(enrollments[last'.id], now))]_vars

\* C29: has_access() is true exactly when is_active is true and the
\* enrollment is not expired, where an enrollment with null expires_at is
\* never expired and one with a set expires_at is expired exactly when now
\* is later than expires_at; days_until_expiry() is null for a null
\* expires_at and otherwise never negative.
C29_AccessAndDaysLeft ==
    LET e == enrollments[last.id]
        expired == e.expires_at # None /\ now > e.expires_at[1]
    IN  /\ last.op = "is_expired" => (last.value <=> expired)
        /\ last.op = "has_access" =>
              (last.value <=> (e.is_active /\ ~expired))
        /\ last.op = "days_until_expiry" =>
              IF e.expires_at = None THEN last.value = None
              ELSE last.value # None /\ last.value[1] >= 0

\* C29 witness: has_access() returned false for an active enrollment at an
\* instant later than its expires_at.
C29_Witness ==
    /\ last.op = "has_access"
    /\ ~last.value
    /\ enrollments[last.id].is_active
    /\ enrollments[last.id].expires_at # None
    /\ now > enrollments[last.id].expires_at[1]

\* has_access() returned true at the instant of expiry, and false for an
\* inactive enrollment without expiry; days_until_expiry() returned 0 after
\* the expiry, a positive number before it, and null
C29_AccessAtExpirySeen ==
    /\ last.op = "has_access"
    /\ last.value
    /\ enrollments[last.id].expires_at = Some(now)

C29_InactiveSeen ==
    /\ last.op = "has_access"
    /\ ~last.value
    /\ enrollments[last.id].expires_at = None

C29_DaysAfterExpirySeen ==
    /\ last.op = "days_until_expiry"
    /\ last.value = Some(0)
    /\ now > enrollments[last.id].expires_at[1]

C29_DaysAheadSeen ==
    /\ last.op = "days_until_expiry"
    /\ last.value # None
    /\ last.value[1] > 0

C29_NoDaysSeen ==
    /\ last.op = "days_until_expiry"
    /\ last.value = None

===========================================================================
